---------------------------- MODULE Spec2Model ----------------------------
(***************************************************************************)
(* Personal Stock Analyzer (src/app.py): one run of the Streamlit script.  *)
(*                                                                         *)
(* The script reads a ticker, fetches (info, hist, news) from the data     *)
(* provider, validates the record, computes the price metrics, classifies  *)
(* the first headlines and renders the panels.  Any exception raised       *)
(* inside the try block is caught by the generic handler at the bottom.    *)
(*                                                                         *)
(* Numbers.  Prices are integers (a price in its smallest unit).  The      *)
(* results of divisions are exact fractions in lowest terms, extended by   *)
(* the IEEE values nan, inf and -inf that numpy scalars produce; binary    *)
(* rounding of floats is not modelled.  A compound sentiment score is an   *)
(* integer number of millionths.                                           *)
(* The one-hour cache of get_stock_data is not modelled: a single run of   *)
(* the script calls it once.                                               *)
(***************************************************************************)
EXTENDS Integers, Sequences, FiniteSets, TLC

VARIABLES
    typed,            \* text in the ticker input box
    providerUp,       \* whether the provider answers (FALSE: the fetch raises)
    providerInfo,     \* what the provider holds for the ticker: stock.info
    providerHist,     \*   stock.history(period="3mo")
    providerNews,     \*   stock.news
    pc,               \* position of the script
    ticker,           \* local: ticker
    info, hist, news, \* locals bound at line 49
    current_price, previous_close, price_change, percent_change,
    high_60d, drop_from_high,
    idx,              \* position of the news loop in news[:5] (1-based)
    exc,              \* the exception in flight or handled ("none": none)
    histRead,         \* whether the script has read hist
    header,           \* rendered: <<>> or <<[name, symbol]>>
    metrics,          \* rendered: <<>> or <<the three metric panels>>
    summary,          \* rendered: <<>> or <<business summary text>>
    sentiments,       \* results of get_sentiment, in the order rendered
    newsNote,         \* rendered: "No recent news found."
    links,            \* rendered: <<>> or <<plain_symbol>>
    banner,           \* rendered error banner: "none", "invalid", "error"
    footer            \* rendered: the disclaimer

env  == <<typed, providerUp, providerInfo, providerHist, providerNews>>
locs == <<ticker, info, hist, news, current_price, previous_close,
          price_change, percent_change, high_60d, drop_from_high, idx, exc,
          histRead>>
page == <<header, metrics, summary, sentiments, newsNote, links, banner, footer>>
vars == <<env, pc, locs, page>>

-----------------------------------------------------------------------------
(* Bounds of the model *)
MaxPrice    == 3     \* prices and bar highs range over 0..MaxPrice
MaxBars     == 2     \* longest price history
MaxNews     == 6     \* longest news list
ScoreWindow == 12    \* scores within this many millionths of each landmark

(* Program constants *)
ScoreUnit    == 1000000   \* millionths in 1.0: the compound score is in [-1, 1]
PosThreshold == 50000     \* 0.05
NegThreshold == -50000    \* -0.05
NewsCap      == 5         \* the cap on the news shown

-----------------------------------------------------------------------------
(* Numbers *)
Abs(x) == IF x < 0 THEN -x ELSE x

RECURSIVE GCD(_, _)
GCD(a, b) == IF b = 0 THEN a ELSE GCD(b, a % b)

\* The fraction n/d (d # 0) in lowest terms with a positive denominator.
Rat(n, d) ==
    LET g == GCD(Abs(n), Abs(d))
        s == IF d < 0 THEN -1 ELSE 1
    IN  [kind |-> "fin", num |-> (s * n) \div g, den |-> (s * d) \div g]

IntNum(n) == [kind |-> "fin", num |-> n, den |-> 1]
NaN       == [kind |-> "nan", num |-> 0, den |-> 1]
PosInf    == [kind |-> "inf", num |-> 1, den |-> 1]
NegInf    == [kind |-> "inf", num |-> -1, den |-> 1]
Raised    == [kind |-> "raise", num |-> 0, den |-> 1]   \* the operation raised
Unset     == [kind |-> "unset", num |-> 0, den |-> 1]   \* local not bound yet

IsFin(x) == x.kind = "fin"

\* Python: a / b on Python numbers; ZeroDivisionError when b is 0.
PyTrueDiv(a, b) == IF b = 0 THEN Raised ELSE Rat(a, b)

\* x * 100 and a - x, for x a float that may be nan or infinite.
Times100(x) == IF IsFin(x) THEN Rat(x.num * 100, x.den) ELSE x
MinusNum(a, x) ==
    CASE x.kind = "fin" -> Rat(a * x.den - x.num, x.den)
      [] x.kind = "nan" -> NaN
      [] x.kind = "inf" -> IF x.num > 0 THEN NegInf ELSE PosInf
      [] OTHER          -> x

\* numpy: x / y on float64 scalars; no exception, a division by zero gives
\* inf, -inf or nan (with a RuntimeWarning).
NpDiv(x, y) ==
    CASE x.kind = "nan" \/ y.kind = "nan" -> NaN
      [] IsFin(x) /\ IsFin(y) ->
            IF y.num # 0 THEN Rat(x.num * y.den, x.den * y.num)
            ELSE IF x.num > 0 THEN PosInf
            ELSE IF x.num < 0 THEN NegInf
            ELSE NaN
      [] IsFin(x) /\ y.kind = "inf" -> IntNum(0)
      [] x.kind = "inf" /\ IsFin(y) ->
            IF (x.num > 0) = (y.num >= 0) THEN PosInf ELSE NegInf
      [] OTHER -> NaN

\* n/d (d > 0) rounded to the nearest integer, ties to even.
RoundHalfEven(n, d) ==
    LET q == n \div d
        r == n % d
    IN  IF 2 * r < d THEN q
        ELSE IF 2 * r > d THEN q + 1
        ELSE IF q % 2 = 0 THEN q ELSE q + 1

\* f"{x:,.2f}": the value in hundredths, or the text nan / inf / -inf.
Fmt2(x) ==
    IF IsFin(x) THEN [text |-> "num", cents |-> RoundHalfEven(x.num * 100, x.den)]
    ELSE IF x.kind = "nan" THEN [text |-> "nan", cents |-> 0]
    ELSE IF x.num > 0 THEN [text |-> "inf", cents |-> 0]
    ELSE [text |-> "-inf", cents |-> 0]

-----------------------------------------------------------------------------
(* Dictionaries and strings *)
\* dict.get(k, default)
Get(d, k, default) == IF k \in DOMAIN d THEN d[k] ELSE default

EmptyDict == <<>>

SeqsUpTo(S, n) == UNION {[1..k -> S] : k \in 0..n}

\* str.upper(), on a string held as a sequence of characters
UpperChar(c) ==
    CASE c = "t" -> "T" [] c = "c" -> "C" [] c = "s" -> "S"
      [] c = "n" -> "N" [] OTHER -> c
Upper(s) == [k \in 1..Len(s) |-> UpperChar(s[k])]

\* s.split('.')[0]: the text before the first dot
RECURSIVE BeforeDot(_)
BeforeDot(s) ==
    IF s = <<>> \/ Head(s) = "." THEN <<>>
    ELSE <<Head(s)>> \o BeforeDot(Tail(s))

-----------------------------------------------------------------------------
(* The lexicon engine and get_sentiment *)
\* analyzer.polarity_scores(text)['compound']: the engine is a fixed lexicon;
\* a headline is held with the score the lexicon gives its words.
Headline(s) == [lexicon |-> s]
Compound(text) == text.lexicon

\* get_sentiment with the boundaries exclusive (> and < for >= and <=)
get_sentiment_exclusive(text) ==
    LET score == Compound(text)
    IN  IF score > PosThreshold
        THEN [label |-> "Positive", emoji |-> "smiling", score |-> score]
        ELSE IF score < NegThreshold
        THEN [label |-> "Negative", emoji |-> "worried", score |-> score]
        ELSE [label |-> "Neutral", emoji |-> "neutral", score |-> score]

\* get_sentiment(text): the tuple (label, emoji, score)
get_sentiment(text) ==
    LET score == Compound(text)
    IN  IF score >= PosThreshold
        THEN [label |-> "Positive", emoji |-> "smiling", score |-> score]
        ELSE IF score <= NegThreshold
        THEN [label |-> "Negative", emoji |-> "worried", score |-> score]
        ELSE [label |-> "Neutral", emoji |-> "neutral", score |-> score]

-----------------------------------------------------------------------------
(* The steps of the main script as functions of the fetched data *)
\* The validity check also demanding the symbol
IsValidInfo_symbol(i) == "longName" \in DOMAIN i /\ "symbol" \in DOMAIN i

\* The validity check reduced to "if not info"
IsValidInfo_nonempty(i) == DOMAIN i # {}

\* not (not info or info.get('longName') is None)
IsValidInfo(i) == DOMAIN i # {} /\ "longName" \in DOMAIN i

\* The current price without the fallback to regularMarketPrice
CurrentPrice_nofallback(i) == Get(i, "currentPrice", 0)

\* info.get('currentPrice', info.get('regularMarketPrice', 0))
CurrentPrice(i) == Get(i, "currentPrice", Get(i, "regularMarketPrice", 0))

\* info.get('previousClose', 0)
PreviousClose(i) == Get(i, "previousClose", 0)

\* The percent change without its guard
PercentChange_unguarded(change, prev) == Times100(PyTrueDiv(change, prev))

\* (price_change / previous_close) * 100 if previous_close else 0
PercentChange(change, prev) ==
    IF prev # 0 THEN Times100(PyTrueDiv(change, prev)) ELSE IntNum(0)

\* The most recent bar's high in place of the largest
SeriesMax_last(s) == IF s = <<>> THEN NaN ELSE IntNum(s[Len(s)])

\* pandas Series.max(): the largest value, nan for a series with no rows
RECURSIVE SeriesMax(_)
SeriesMax(s) ==
    IF s = <<>> THEN NaN
    ELSE IF Len(s) = 1 THEN IntNum(s[1])
    ELSE LET m == SeriesMax(Tail(s))
         IN  IF s[1] >= m.num THEN IntNum(s[1]) ELSE m

\* ((current_price - high_60d) / high_60d) * 100, on numpy float64
DropFromHigh(cur, high) ==
    Times100(NpDiv(MinusNum(cur, high), high))

\* info.get('marketCap', 0) / 1e7 under ",.0f": whole crores
MarketCapCr(i) == RoundHalfEven(Get(i, "marketCap", 0), 10000000)

\* The three st.metric panels of lines 67-70
MetricPanels(i, cur, change, pct, high, drop) ==
    [price  |-> Fmt2(IntNum(cur)),
     change |-> Fmt2(IntNum(change)),
     pct    |-> Fmt2(pct),
     high   |-> Fmt2(high),
     drop   |-> Fmt2(drop),
     cap    |-> MarketCapCr(i)]

\* The news list without the cap
Shown_all(n) == n

\* news[:5]
Shown(n) == SubSeq(n, 1, IF Len(n) < NewsCap THEN Len(n) ELSE NewsCap)

-----------------------------------------------------------------------------
(* What the provider can hold, and what the user can type *)
Prices == 0..MaxPrice

DictsOver(keys, values) == UNION {[K -> values] : K \in SUBSET keys}

NameDicts  == DictsOver({"longName"}, {"Reliance Industries"})
                 \X DictsOver({"symbol"}, {"RELIANCE.NS"})
PriceDicts == DictsOver({"currentPrice", "regularMarketPrice", "previousClose"},
                        Prices)
Infos      == {n[1] @@ n[2] @@ p : n \in NameDicts, p \in PriceDicts}

BasicInfo  == [longName |-> "Reliance Industries", symbol |-> "RELIANCE.NS",
               currentPrice |-> 1, previousClose |-> 2]
PanelInfos == {BasicInfo @@ c @@ b :
                  c \in DictsOver({"marketCap"}, {0, 25000000, 35000000}),
                  b \in DictsOver({"longBusinessSummary"}, {"Energy and retail."})}

\* A history frame: whether it has the High column, and that column's values.
\* A frame with rows always has the column; an empty one may lack it.
Frame(highs) == [hasHigh |-> TRUE, High |-> highs]
NoColumns    == [hasHigh |-> FALSE, High |-> <<>>]
Hists        == {NoColumns} \cup {Frame(h) : h \in SeqsUpTo(Prices, MaxBars)}
BasicHist    == Frame(<<2>>)

\* A news item is a dict with a title and, usually, a publisher.
Item(s)        == [title |-> Headline(s), publisher |-> "Reuters"]
Unpublished(s) == [title |-> Headline(s)]
Landmarks  == {-ScoreUnit, NegThreshold, 0, PosThreshold, ScoreUnit}
Scores     == {s \in UNION {(m - ScoreWindow)..(m + ScoreWindow) : m \in Landmarks} :
                  -ScoreUnit <= s /\ s <= ScoreUnit}
ItemKinds  == {Item(NegThreshold), Item(0), Item(PosThreshold), Unpublished(0)}

DefaultTyped == <<"R", "E", "L", "I", "A", "N", "C", "E", ".", "N", "S">>
Typed == {<<>>, <<"t", "c", "s">>, <<"t", "c", "s", ".", "b", "o">>, DefaultTyped}

World(t, up, i, h, n) == [typed |-> t, up |-> up, info |-> i, hist |-> h, news |-> n]

\* Every quote record and history, with no or one headline
MetricsWorlds == {World(DefaultTyped, TRUE, i, h, n) :
                     i \in Infos, h \in Hists, n \in {<<>>, <<Item(PosThreshold)>>}}
\* Every news list up to MaxNews items
NewsWorlds    == {World(DefaultTyped, TRUE, BasicInfo, BasicHist, n) :
                     n \in SeqsUpTo(ItemKinds, MaxNews)}
\* Every score near a threshold or an end of the range
ScoreWorlds   == {World(DefaultTyped, TRUE, BasicInfo, BasicHist, <<Item(s)>>) :
                     s \in Scores}
\* Every typed text, provider up or down, every optional panel field
EdgeWorlds    == {World(t, up, i, BasicHist, <<>>) :
                     t \in Typed, up \in BOOLEAN, i \in PanelInfos}

Worlds == MetricsWorlds \cup NewsWorlds \cup ScoreWorlds \cup EdgeWorlds

-----------------------------------------------------------------------------
(* The state before the script runs *)
Init ==
    /\ \E w \in Worlds :
          /\ typed = w.typed
          /\ providerUp = w.up
          /\ providerInfo = w.info
          /\ providerHist = w.hist
          /\ providerNews = w.news
    /\ pc = "start"
    /\ ticker = <<>>
    /\ info = EmptyDict
    /\ hist = NoColumns
    /\ news = <<>>
    /\ current_price = Unset
    /\ previous_close = Unset
    /\ price_change = Unset
    /\ percent_change = Unset
    /\ high_60d = Unset
    /\ drop_from_high = Unset
    /\ idx = 1
    /\ exc = "none"
    /\ histRead = FALSE
    /\ header = <<>>
    /\ metrics = <<>>
    /\ summary = <<>>
    /\ sentiments = <<>>
    /\ newsNote = FALSE
    /\ links = <<>>
    /\ banner = "none"
    /\ footer = FALSE

prices == <<current_price, previous_close, price_change, percent_change>>
highs  == <<high_60d, drop_from_high>>

\* Lines 44-46: ticker = st.text_input(...).upper(); if ticker:
ReadTicker ==
    /\ pc = "start"
    /\ ticker' = Upper(typed)
    /\ pc' = IF Upper(typed) # <<>> THEN "fetch" ELSE "footer"
    /\ UNCHANGED <<env, info, hist, news, prices, highs, idx, exc, histRead, page>>

\* Line 49 and get_stock_data: the provider answers
FetchReturns ==
    /\ pc = "fetch"
    /\ providerUp
    /\ info' = providerInfo
    /\ hist' = providerHist
    /\ news' = providerNews
    /\ pc' = "validate"
    /\ UNCHANGED <<env, ticker, prices, highs, idx, exc, histRead, page>>

\* Line 49 and get_stock_data: the provider call raises
FetchRaises ==
    /\ pc = "fetch"
    /\ ~providerUp
    /\ exc' = "ConnectionError"
    /\ pc' = "except"
    /\ UNCHANGED <<env, ticker, info, hist, news, prices, highs, idx, histRead, page>>

\* Lines 52-53: the record names no instrument
RejectTicker ==
    /\ pc = "validate"
    /\ ~IsValidInfo(info)
    /\ banner' = "invalid"
    /\ pc' = "footer"
    /\ UNCHANGED <<env, locs, header, metrics, summary, sentiments, newsNote,
                   links, footer>>

\* Lines 54-61: the header and the price change
PriceChange ==
    /\ pc = "validate"
    /\ IsValidInfo(info)
    /\ header' = <<[name   |-> Get(info, "longName", "N/A"),
                    symbol |-> Get(info, "symbol", "N/A")]>>
    /\ LET cur  == CurrentPrice(info)
           prev == PreviousClose(info)
           pct  == PercentChange(cur - prev, prev)
       IN  /\ current_price' = IntNum(cur)
           /\ previous_close' = IntNum(prev)
           /\ price_change' = IntNum(cur - prev)
           /\ IF pct = Raised
              THEN /\ percent_change' = percent_change
                   /\ exc' = "ZeroDivisionError"
                   /\ pc' = "except"
              ELSE /\ percent_change' = pct
                   /\ exc' = exc
                   /\ pc' = "high"
    /\ UNCHANGED <<env, ticker, info, hist, news, highs, idx, histRead,
                   metrics, summary, sentiments, newsNote, links, banner, footer>>

\* Lines 63-79: the period high, the drop from it, the metric panels and
\* the business summary
ShowMetrics ==
    /\ pc = "high"
    /\ hist.hasHigh
    /\ histRead' = TRUE
    /\ LET high == SeriesMax(hist.High)
           drop == DropFromHigh(current_price.num, high)
       IN  /\ high_60d' = high
           /\ drop_from_high' = drop
           /\ metrics' = <<MetricPanels(info, current_price.num, price_change.num,
                                        percent_change, high, drop)>>
    /\ summary' = <<Get(info, "longBusinessSummary", "No business summary available.")>>
    /\ pc' = "news"
    /\ UNCHANGED <<env, ticker, info, hist, news, prices, idx, exc,
                   header, sentiments, newsNote, links, banner, footer>>

\* Line 64: hist['High'] on a frame without that column raises KeyError
HighRaises ==
    /\ pc = "high"
    /\ ~hist.hasHigh
    /\ histRead' = TRUE
    /\ exc' = "KeyError"
    /\ pc' = "except"
    /\ UNCHANGED <<env, ticker, info, hist, news, prices, highs, idx, page>>

\* An empty news list treated as a failure (news[0] raising IndexError)
NoNews_raises ==
    /\ pc = "news"
    /\ news = <<>>
    /\ exc' = "IndexError"
    /\ pc' = "except"
    /\ UNCHANGED <<env, ticker, info, hist, news, prices, highs, idx, histRead, page>>

\* Lines 92-93: no news
NoNews ==
    /\ pc = "news"
    /\ news = <<>>
    /\ newsNote' = TRUE
    /\ pc' = "deals"
    /\ UNCHANGED <<env, locs, header, metrics, summary, sentiments, links,
                   banner, footer>>

\* Lines 85-91: one turn of the loop over news[:5]
ClassifyItem ==
    /\ pc = "news"
    /\ news # <<>>
    /\ idx <= Len(Shown(news))
    /\ LET item == Shown(news)[idx]
       IN  /\ {"title", "publisher"} \subseteq DOMAIN item
           /\ sentiments' = Append(sentiments,
                 [title |-> item["title"], publisher |-> item["publisher"]]
                     @@ get_sentiment(item["title"]))
    /\ idx' = idx + 1
    /\ UNCHANGED <<env, pc, ticker, info, hist, news, prices, highs, exc, histRead,
                   header, metrics, summary, newsNote, links, banner, footer>>

\* Lines 86-87: item['title'] or item['publisher'] raises KeyError
ItemRaises ==
    /\ pc = "news"
    /\ news # <<>>
    /\ idx <= Len(Shown(news))
    /\ ~({"title", "publisher"} \subseteq DOMAIN Shown(news)[idx])
    /\ exc' = "KeyError"
    /\ pc' = "except"
    /\ UNCHANGED <<env, ticker, info, hist, news, prices, highs, idx, histRead, page>>

\* Line 85: the loop over news[:5] is exhausted
NewsDone ==
    /\ pc = "news"
    /\ news # <<>>
    /\ idx > Len(Shown(news))
    /\ pc' = "deals"
    /\ UNCHANGED <<env, locs, page>>

\* Lines 95-104: the links to the exchange's deal pages
DealLinks ==
    /\ pc = "deals"
    /\ links' = <<BeforeDot(ticker)>>
    /\ pc' = "footer"
    /\ UNCHANGED <<env, locs, header, metrics, summary, sentiments, newsNote,
                   banner, footer>>

\* Lines 106-108: except Exception
HandleException ==
    /\ pc = "except"
    /\ banner' = "error"
    /\ pc' = "footer"
    /\ UNCHANGED <<env, locs, header, metrics, summary, sentiments, newsNote,
                   links, footer>>

\* Lines 110-111: the divider and the disclaimer
Footer ==
    /\ pc = "footer"
    /\ footer' = TRUE
    /\ pc' = "done"
    /\ UNCHANGED <<env, locs, header, metrics, summary, sentiments, newsNote,
                   links, banner>>

Next ==
    \/ ReadTicker
    \/ FetchReturns
    \/ FetchRaises
    \/ RejectTicker
    \/ PriceChange
    \/ ShowMetrics
    \/ HighRaises
    \/ NoNews
    \/ ClassifyItem
    \/ ItemRaises
    \/ NewsDone
    \/ DealLinks
    \/ HandleException
    \/ Footer

Spec == Init /\ [][Next]_vars

-----------------------------------------------------------------------------
(* Properties *)

\* The provider has answered: info, hist and news are what it returned.
Fetched == pc \notin {"start", "fetch"} /\ ticker # <<>> /\ exc # "ConnectionError"
HasName == "longName" \in DOMAIN info
HasRows == hist.hasHigh /\ hist.High # <<>>
FirstFive(n) == SubSeq(n, 1, IF Len(n) < 5 THEN Len(n) ELSE 5)
WellFormed(item) == {"title", "publisher"} \subseteq DOMAIN item
\* The number of items of n before the first one lacking a key
LeadingWellFormed(n) ==
    CHOOSE k \in 0..Len(n) :
        /\ \A j \in 1..k : WellFormed(n[j])
        /\ k < Len(n) => ~WellFormed(n[k + 1])
\* The current price the script uses: currentPrice, else regularMarketPrice, else 0
ResolvedPrice ==
    IF "currentPrice" \in DOMAIN info THEN info["currentPrice"]
    ELSE IF "regularMarketPrice" \in DOMAIN info THEN info["regularMarketPrice"]
    ELSE 0
ClosePrice == IF "previousClose" \in DOMAIN info THEN info["previousClose"] ELSE 0

\* C1: every sentiment result carries exactly one label, Positive iff the
\* score is >= 0.05, Negative iff it is <= -0.05, Neutral otherwise (0.05 is
\* Positive, -0.05 Negative, 0.0 and 0.049999 Neutral), and carries the
\* engine's score unchanged.
C1_SentimentThresholds ==
    \A k \in 1..Len(sentiments) :
        LET r == sentiments[k]
            s == news[k]["title"].lexicon
        IN  /\ s \in -1000000..1000000
            /\ r.label \in {"Positive", "Negative", "Neutral"}
            /\ (r.label = "Positive") <=> (s >= 50000)
            /\ (r.label = "Negative") <=> (s <= -50000)
            /\ (r.label = "Neutral") <=> (-50000 < s /\ s < 50000)
            /\ s \in {0, 49999} => r.label = "Neutral"
            /\ r.score = s

C1_Witness ==
    /\ Len(sentiments) >= 3
    /\ \E k \in 1..Len(sentiments) :
          sentiments[k].score = 50000 /\ sentiments[k].label = "Positive"
    /\ \E k \in 1..Len(sentiments) :
          sentiments[k].score = -50000 /\ sentiments[k].label = "Negative"
    /\ \E k \in 1..Len(sentiments) :
          sentiments[k].score = 0 /\ sentiments[k].label = "Neutral"

\* C2: with a non-empty history whose period high is 0, the percent drawdown
\* is 0 for every current price and no error is raised.
C2_ZeroHighGuarded ==
    (HasRows /\ high_60d = IntNum(0)) =>
        (drop_from_high = IntNum(0) /\ exc = "none")

\* C3: with a valid snapshot and an empty history the request ends in the
\* MissingHistoryError outcome: no period high and no drawdown is produced or
\* displayed, and the error shown is of that distinct kind.
C3_MissingHistoryError ==
    (pc = "done" /\ Fetched /\ HasName /\ hist.High = <<>>) =>
        /\ high_60d = Unset
        /\ drop_from_high = Unset
        /\ metrics = <<>>
        /\ banner = "missing_history"

C5_PercentChange ==
    /\ exc # "ZeroDivisionError"
    /\ price_change # Unset =>
          /\ percent_change.kind = "fin"
          /\ previous_close = IntNum(ClosePrice)
          /\ ClosePrice = 0 => percent_change = IntNum(0)
          /\ ClosePrice # 0 =>
                percent_change.num * ClosePrice
                    = (current_price.num - ClosePrice) * 100 * percent_change.den

C5_Witness ==
    /\ HasName /\ "previousClose" \notin DOMAIN info
    /\ current_price.kind = "fin" /\ current_price.num > 0
    /\ percent_change = IntNum(0)
    /\ pc = "done" /\ banner = "none"

C7_PeriodHighAndDrawdown ==
    (high_60d # Unset /\ HasRows /\ \A k \in 1..Len(hist.High) : hist.High[k] > 0) =>
        LET h == high_60d.num
            c == ResolvedPrice
        IN  /\ high_60d.kind = "fin" /\ high_60d.den = 1
            /\ \E k \in 1..Len(hist.High) : hist.High[k] = h
            /\ \A k \in 1..Len(hist.High) : hist.High[k] <= h
            /\ drop_from_high.kind = "fin"
            /\ drop_from_high.num * h = (c - h) * 100 * drop_from_high.den
            /\ c <= h => drop_from_high.num <= 0
            /\ c = h => drop_from_high.num = 0

C7_Witness ==
    /\ HasRows /\ Len(hist.High) >= 2
    /\ hist.High[1] > hist.High[Len(hist.High)]
    /\ hist.High[Len(hist.High)] > 0
    /\ high_60d = IntNum(hist.High[1])
    /\ ResolvedPrice < hist.High[1]
    /\ drop_from_high.kind = "fin" /\ drop_from_high.num < 0

\* C8 as stated: an absent currentPrice is treated as 0, so the price change
\* is currentPrice - previousClose with 0 for whichever is absent.
C8_AbsentPriceIsZero ==
    price_change # Unset =>
        price_change = IntNum(Get(info, "currentPrice", 0) - Get(info, "previousClose", 0))

\* C8 as amended: for a valid snapshot an absent previousClose is treated as
\* 0 and an absent currentPrice as regularMarketPrice when that is present
\* and as 0 otherwise; neither causes an error, and the price change is the
\* difference of the two values so obtained.
C8_AbsentPriceFallsBack ==
    /\ exc \in {"none", "ConnectionError", "KeyError"}
    /\ (Fetched /\ HasName /\ pc # "validate") =>
          /\ current_price = IntNum(ResolvedPrice)
          /\ previous_close = IntNum(ClosePrice)
          /\ price_change = IntNum(ResolvedPrice - ClosePrice)

C8_Witness ==
    /\ Fetched /\ HasName
    /\ "currentPrice" \notin DOMAIN info
    /\ "regularMarketPrice" \in DOMAIN info
    /\ "previousClose" \notin DOMAIN info
    /\ info["regularMarketPrice"] > 0
    /\ price_change = IntNum(info["regularMarketPrice"])

\* C9: with a valid snapshot and a non-empty history an empty news list is no
\* error: the request completes with the price metrics, no sentiment result
\* and no error outcome; and the metrics shown depend on the quote and the
\* history alone, whatever the news list.
C9_EmptyNewsTolerated ==
    /\ (pc = "done" /\ Fetched /\ HasName /\ HasRows /\ news = <<>>) =>
          /\ banner = "none" /\ exc = "none"
          /\ metrics # <<>>
          /\ sentiments = <<>>
          /\ newsNote
    /\ metrics # <<>> =>
          metrics[1] = MetricPanels(info, ResolvedPrice, ResolvedPrice - ClosePrice,
                                    percent_change, high_60d, drop_from_high)

C9_Witness ==
    /\ pc = "done" /\ Fetched /\ HasName /\ HasRows /\ news = <<>>
    /\ metrics # <<>> /\ newsNote /\ banner = "none"

\* C10: validation comes first: a fetched record that is empty or has no
\* display name ends in the invalid-ticker outcome with no metric computed,
\* no history read and no headline classified; and the metrics are computed
\* before any headline is classified, so a request whose metrics failed has
\* classified none.
C10_ValidateThenMetricsThenNews ==
    /\ (Fetched /\ ~HasName /\ pc # "validate") =>
          /\ banner = "invalid"
          /\ price_change = Unset /\ percent_change = Unset
          /\ high_60d = Unset /\ drop_from_high = Unset
          /\ metrics = <<>>
          /\ ~histRead
          /\ sentiments = <<>>
    /\ (sentiments # <<>> \/ idx > 1) =>
          /\ price_change # Unset
          /\ high_60d # Unset
          /\ metrics # <<>>
    /\ (exc # "none" /\ metrics = <<>>) => sentiments = <<>>

C10_Witness ==
    /\ pc = "done" /\ Fetched /\ HasName
    /\ news # <<>>
    /\ exc = "KeyError" /\ banner = "error"
    /\ metrics = <<>>
    /\ sentiments = <<>>

=============================================================================
